---- MODULE Spec2Model ----
(***************************************************************************)
(* The request dispatcher of webserver.py (default_request_handler) as a   *)
(* state machine: one request at a time is received, run through the      *)
(* special-case matcher, the existence check, the directory/index          *)
(* resolution, the template renderer and the static responder.            *)
(*                                                                         *)
(* A Python string is a sequence of tokens.  A token is an indivisible run *)
(* of characters: "/", "@", "!", "?" are the single characters the code    *)
(* looks for, "." and ".." are the two directory words, and a file name    *)
(* such as "t.tmpl" is one token.  File contents and command output are    *)
(* sequences of units (bytes or runs of bytes).                            *)
(***************************************************************************)
EXTENDS Integers, Sequences, FiniteSets, TLC

VARIABLES
    fs,         \* the file system
    pc,         \* where the handler of the current request stands
    req,        \* the request being handled: command, path, headers, body
    m_urlpath,  \* req.m_urlpath
    m_syspath,  \* req.m_syspath
    m_params,   \* req.m_params
    responses,  \* what has been written to the connection for this request
    raised,     \* the exception that left the handler, or "none"
    touched,    \* the file-system calls made for this request
    cmds,       \* the host commands run for this request, with their output
    ruleTests,  \* the special-case rules tested, in the order tested
    matched,    \* the special-case rule whose branch ran, 0 for none
    steps,      \* the steps of normal dispatch that ran, in order
    ioerr,      \* whether an open() of this request failed with IOError
    active,     \* the number of connections whose handler has not ended
    child,      \* the child process of runcmd: "none", "running" (alive,
                \* output open), "closed" (alive, output closed), "zombie"
                \* (ended, output still open in a process it started),
                \* "exited" (ended, output closed), "orphan" (alive after
                \* the request that started it has ended)
    mpc,        \* where main stands: "getopts", "daemon_start",
                \* "daemon_write", "serve", "serving", "daemon_stop", "exited"
    argv,       \* the command line and what the host does at start-up
    port,       \* opts.port
    pidfile,    \* the PID file: "absent", "other" (of another process),
                \* "own" (written by daemon_start)
    overwrote,  \* whether daemon_start has written over an existing PID file
    exitcode    \* the exit status of main, -1 while it runs

vars == <<fs, pc, req, m_urlpath, m_syspath, m_params, responses, raised,
          touched, cmds, ruleTests, matched, steps, ioerr, active, child,
          mpc, argv, port, pidfile, overwrote, exitcode>>

\* the variables of start-up and shutdown
mainvars == <<mpc, argv, port, pidfile, overwrote, exitcode>>

\* the variables of request handling
reqvars == <<fs, pc, req, m_urlpath, m_syspath, m_params, responses, raised,
             touched, cmds, ruleTests, matched, steps, ioerr, active, child>>

\* Largest number of path segments of a request URL.
MaxSegs == 2

(***************************************************************************)
(* Python string helpers                                                   *)
(***************************************************************************)
Last(s) == s[Len(s)]

\* s[:-1]
ButLast(s) == SubSeq(s, 1, Len(s) - 1)

\* s.endswith(<one token>) / re.search(r'<tok>$', s)
EndsWith(s, tok) == Len(s) > 0 /\ s[Len(s)] = tok

\* s.split(sep)
RECURSIVE Split(_, _)
Split(s, sep) ==
    IF \A i \in 1..Len(s) : s[i] # sep
    THEN <<s>>
    ELSE LET i == CHOOSE k \in 1..Len(s) :
                      s[k] = sep /\ \A j \in 1..(k - 1) : s[j] # sep
         IN  <<SubSeq(s, 1, i - 1)>> \o Split(SubSeq(s, i + 1, Len(s)), sep)

\* sep.join(parts)
RECURSIVE Join(_, _)
Join(parts, sep) ==
    IF parts = <<>> THEN <<>>
    ELSE IF Len(parts) = 1 THEN parts[1]
    ELSE parts[1] \o <<sep>> \o Join(Tail(parts), sep)

\* filter(None, words)
RECURSIVE FilterEmpty(_)
FilterEmpty(words) ==
    IF words = <<>> THEN <<>>
    ELSE IF Head(words) = <<>> THEN FilterEmpty(Tail(words))
    ELSE <<Head(words)>> \o FilterEmpty(Tail(words))

(***************************************************************************)
(* posixpath.normpath, os.path.dirname and                                 *)
(* SimpleHTTPRequestHandler.translate_path (Python 2.7), which line 747    *)
(* calls to turn the URL path into the system path.                        *)
(***************************************************************************)
\* the web directory the server has chdir'ed to: "/www"
WebRoot == <<"/", "www">>

\* the directory node the web root names
RootNode == <<"www">>

RECURSIVE NormComps(_, _, _)
NormComps(comps, acc, initial) ==
    IF comps = <<>> THEN acc
    ELSE LET c == Head(comps)
             rest == Tail(comps)
         IN  IF c = <<>> \/ c = <<".">>
             THEN NormComps(rest, acc, initial)
             ELSE IF c # <<"..">> \/ (initial = 0 /\ acc = <<>>)
                       \/ (acc # <<>> /\ Last(acc) = <<"..">>)
             THEN NormComps(rest, Append(acc, c), initial)
             ELSE IF acc # <<>>
             THEN NormComps(rest, ButLast(acc), initial)
             ELSE NormComps(rest, acc, initial)

NormPath(path) ==
    IF path = <<>> THEN <<".">>
    ELSE LET initial == IF path[1] # "/" THEN 0
                        ELSE IF Len(path) >= 2 /\ path[2] = "/"
                                /\ ~(Len(path) >= 3 /\ path[3] = "/")
                        THEN 2 ELSE 1
             comps == NormComps(Split(path, "/"), <<>>, initial)
             body == Join(comps, "/")
             full == [i \in 1..initial |-> "/"] \o body
         IN  IF full = <<>> THEN <<".">> ELSE full

\* the words translate_path keeps: '.' and '..' are skipped
RECURSIVE KeepWords(_)
KeepWords(words) ==
    IF words = <<>> THEN <<>>
    ELSE IF Head(words) = <<".">> \/ Head(words) = <<"..">>
    THEN KeepWords(Tail(words))
    ELSE <<Head(words)>> \o KeepWords(Tail(words))

RECURSIVE JoinUnder(_, _)
JoinUnder(path, words) ==
    IF words = <<>> THEN path
    ELSE JoinUnder(path \o <<"/">> \o Head(words), Tail(words))

\* The URLs of the model hold no '%' escape and no '#', so urllib.unquote
\* and the split at '#' leave them as they are.
translate_path(urlpath) ==
    LET trailing_slash == EndsWith(urlpath, "/")
        words == KeepWords(FilterEmpty(Split(NormPath(urlpath), "/")))
        path == JoinUnder(WebRoot, words)
    IN  IF trailing_slash THEN path \o <<"/">> ELSE path

\* os.path.dirname
RECURSIVE RStripSlash(_)
RStripSlash(s) ==
    IF s # <<>> /\ Last(s) = "/" THEN RStripSlash(ButLast(s)) ELSE s

dirname(p) ==
    LET idx == {i \in 1..Len(p) : p[i] = "/"}
        i == IF idx = {} THEN 0 ELSE CHOOSE k \in idx : \A j \in idx : j <= k
        head == SubSeq(p, 1, i)
    IN  IF head # <<>> /\ \E k \in 1..Len(head) : head[k] # "/"
        THEN RStripSlash(head) ELSE head

(***************************************************************************)
(* The file system: a function from nodes (sequences of names, from the    *)
(* top directory) to what is stored there.  The web root is /www; the top  *)
(* directory also holds a file that is not served.                         *)
(***************************************************************************)
\* what the template t.tmpl may contain
TemplateBodies == { <<"h", "{x}">>, <<"{0}", "{{">> }

File(c) == [kind |-> "file", content |-> c]
Dir == [kind |-> "dir", content |-> <<>>]

BaseNodes == { <<>>, <<"secret">>, <<"www">>, <<"www", "d">>, <<"www", "d", "t.tmpl">>,
               <<"www", "d.tmpl">>, <<"www", "t.tmpl">>, <<"www", "s.sh">>,
               <<"www", "README">> }

IndexNodes == { <<"www", "index.html">>, <<"www", "d", "index.html">>,
                <<"www", "d.tmpl", "index.html">> }

MkFS(withIndex, body) ==
    [n \in BaseNodes \cup (IF withIndex THEN IndexNodes ELSE {}) |->
        IF n \in { <<>>, <<"www">>, <<"www", "d">>, <<"www", "d.tmpl">> } THEN Dir
        ELSE IF n = <<"secret">> THEN File(<<"k", "e", "y">>)
        ELSE IF n = <<"www", "d.tmpl", "index.html">> THEN File(<<"p", "{x}">>)
        ELSE IF Last(n) = "index.html" THEN File(<<"p", "hi">>)
        ELSE IF Last(n) = "s.sh" THEN File(<<"#!", "ls">>)
        ELSE File(body)]

\* the file systems served: with and without index files, and with each
\* template body
FileSystems == { MkFS(i, b) : i \in BOOLEAN, b \in TemplateBodies }

\* how the operating system resolves a path string, word by word
RECURSIVE Walk(_, _, _)
Walk(f, cur, words) ==
    IF words = <<>> THEN [ok |-> TRUE, node |-> cur]
    ELSE IF ~(cur \in DOMAIN f /\ f[cur].kind = "dir")
    THEN [ok |-> FALSE, node |-> <<>>]
    ELSE LET w == Head(words)
         IN  IF w = <<>> \/ w = <<".">> THEN Walk(f, cur, Tail(words))
             ELSE IF w = <<"..">>
             THEN Walk(f, IF cur = <<>> THEN cur ELSE ButLast(cur), Tail(words))
             ELSE IF Len(w) = 1 /\ Append(cur, w[1]) \in DOMAIN f
             THEN Walk(f, Append(cur, w[1]), Tail(words))
             ELSE [ok |-> FALSE, node |-> <<>>]

Resolve(f, syspath) == Walk(f, <<>>, Split(syspath, "/"))

\* os.path.exists of a server that takes every path to exist
exists_always(f, syspath) == TRUE

\* os.path.exists / isdir / isfile
exists(f, syspath) == Resolve(f, syspath).ok

\* a dispatcher that takes no path for a directory
isdir_never(f, syspath) == FALSE

isdir(f, syspath) ==
    Resolve(f, syspath).ok /\ f[Resolve(f, syspath).node].kind = "dir"
\* os.path.exists where os.path.isfile is meant
isfile_any(f, syspath) == Resolve(f, syspath).ok

isfile(f, syspath) ==
    Resolve(f, syspath).ok /\ f[Resolve(f, syspath).node].kind = "file"

\* os.listdir of a directory node
listdir(f, node) ==
    { Last(n) : n \in { m \in DOMAIN f : Len(m) = Len(node) + 1
                                          /\ SubSeq(m, 1, Len(node)) = node } }

\* os.path.getsize
getsize(f, node) == Len(f[node].content)

\* one record per file-system call made on behalf of a request
Touch(op, f, syspath) ==
    [op |-> op, path |-> syspath] @@ Resolve(f, syspath)

(***************************************************************************)
(* Requests                                                                *)
(***************************************************************************)
SegNames == { "d", "index.html", "t.tmpl", "d.tmpl", "s.sh", ".." }

RECURSIVE SegSeqs(_)
SegSeqs(n) ==
    IF n = 0 THEN { <<>> }
    ELSE SegSeqs(n - 1)
         \cup { Append(q, w) : q \in { r \in SegSeqs(n - 1) : Len(r) = n - 1 },
                               w \in SegNames }

RECURSIVE SlashJoin(_)
SlashJoin(segs) ==
    IF segs = <<>> THEN <<>>
    ELSE IF Len(segs) = 1 THEN <<segs[1]>>
    ELSE <<segs[1], "/">> \o SlashJoin(Tail(segs))

\* the URL forms a request may have: "/" seg "/" seg ..., an optional
\* trailing slash, an optional last character '@' or '!'
Suffixes == { <<>>, <<"@">>, <<"!">> }

PlainUrls ==
    { <<"/">> \o SlashJoin(q) \o sl \o sfx :
        q \in SegSeqs(MaxSegs), sl \in { <<>>, <<"/">> }, sfx \in Suffixes }
    \ { <<"/", "/">> \o sfx : sfx \in Suffixes }

ReservedUrls ==
    { base \o sl \o sfx :
        base \in { <<"/", "webserver", "/", "info">>, <<"/", "system", "/", "name">> },
        sl \in { <<>>, <<"/">> }, sfx \in Suffixes }

Urls == PlainUrls \cup ReservedUrls

\* what may follow the URL in req.path
Queries == { <<>>, <<"?", "x=5">>, <<"?", "content-type=text/html">>,
             <<"?", "x=5", "x=6">>, <<"?", "x=5", "?", "x=6">> }

\* a request: req.command, req.path, whether a Cookie header is there, the
\* Content-type and Content-length headers ("missing" when absent) and the
\* body as a run of name=value fields
Request(command, path, cookie, ctype, clen, body) ==
    [command |-> command, path |-> path, cookie |-> cookie, ctype |-> ctype,
     clen |-> clen, body |-> body]

GetRequests ==
    { Request("GET", u \o q, c, "missing", "missing", <<>>) :
        u \in Urls, q \in Queries, c \in BOOLEAN }

Urlencoded == "application/x-www-form-urlencoded"

\* the URLs, headers and bodies of the POST requests
PostPaths == { <<"/", "t.tmpl">>, <<"/", "t.tmpl", "?", "x=5">>, <<"/", "s.sh", "!">> }

PostTypes == { Urlencoded, "text/plain", "missing" }

PostBodies == { <<"x=5">>, <<"x=5", "y=">> }

PostLengths == { "missing", "abc", "1", "2" }

PostRequests ==
    { Request("POST", u, c, t, n, b) :
        u \in PostPaths, c \in BOOLEAN, t \in PostTypes, n \in PostLengths,
        b \in PostBodies }

Requests == GetRequests \cup PostRequests

NoRequest == Request("GET", <<>>, FALSE, "missing", "missing", <<>>)

(***************************************************************************)
(* cgi.parse_qs: a query is a run of name=value fields                     *)
(***************************************************************************)
FieldName(tok) ==
    IF tok \in { "x=5", "x=6", "x=5?x=6" } THEN "x"
    ELSE IF tok = "y=" THEN "y"
    ELSE "content-type"

FieldValue(tok) ==
    IF tok = "x=5" THEN "5" ELSE IF tok = "x=6" THEN "6"
    ELSE IF tok = "x=5?x=6" THEN "5?x=6"
    ELSE IF tok = "y=" THEN ""
    ELSE "text/html"

RECURSIVE ValuesOf(_, _)
ValuesOf(qs, name) ==
    IF qs = <<>> THEN <<>>
    ELSE IF FieldName(Head(qs)) = name
    THEN <<FieldValue(Head(qs))>> \o ValuesOf(Tail(qs), name)
    ELSE ValuesOf(Tail(qs), name)

\* cgi.parse_qs(qs, keep_blank_values=1)
parse_qs_keep(qs) ==
    [name \in { FieldName(qs[i]) : i \in 1..Len(qs) } |-> ValuesOf(qs, name)]

\* cgi.parse_qs(qs): fields with a blank value are left out
parse_qs(qs) ==
    parse_qs_keep(SelectSeq(qs, LAMBDA tok : FieldValue(tok) # ""))

(***************************************************************************)
(* init: the URL path, the system path and the parameters of a request,    *)
(* or the exception that ends it before any of them is set                 *)
(***************************************************************************)
\* the texts that int() takes for a number, with their values
Decimal ==
    ("-1" :> -1) @@ ("0" :> 0) @@ ("1" :> 1) @@ ("2" :> 2) @@ ("8080" :> 8080)
    @@ ("65534" :> 65534) @@ ("65535" :> 65535) @@ ("65536" :> 65536)

\* int(text): ok is FALSE for ValueError
int(text) ==
    IF text \in DOMAIN Decimal THEN [ok |-> TRUE, n |-> Decimal[text]]
    ELSE [ok |-> FALSE, n |-> 0]

\* a server that reads nothing when the length is missing or malformed
content_length_lenient(clen) == [exc |-> "none", n |-> 0]

\* line 735: int(req.headers['content-length'])
content_length(clen) ==
    IF clen = "missing" THEN [exc |-> "KeyError", n |-> 0]
    ELSE IF ~int(clen).ok THEN [exc |-> "ValueError", n |-> 0]
    ELSE [exc |-> "none", n |-> int(clen).n]

\* rfile.read(length) of a body that has arrived in full
rfile_read(body, length) ==
    SubSeq(body, 1, IF length < Len(body) THEN length ELSE Len(body))

init(r) ==
    LET parts == Split(r.path, "?")
        got(params) == [exc |-> "none", urlpath |-> parts[1],
                        syspath |-> translate_path(parts[1]), params |-> params]
        fail(exc) == [exc |-> exc, urlpath |-> <<>>, syspath |-> <<>>,
                      params |-> <<>>]
        query == IF Len(parts) > 1 THEN parse_qs(parts[2]) ELSE <<>>
    IN  IF r.command # "POST" THEN got(query)
        ELSE IF DOMAIN query # {}
        THEN fail("AssertionError")                       \* line 730
        ELSE IF r.ctype = "missing"
        THEN fail("TypeError")                            \* line 731
        ELSE IF r.ctype = Urlencoded /\ content_length(r.clen).exc # "none"
        THEN fail(content_length(r.clen).exc)             \* line 735
        ELSE \* line 740 names the module select, which is not imported, and
             \* 'self', which is not defined here: the parameters read from
             \* the body (lines 736-737) are lost with the exception
             fail("NameError")

(***************************************************************************)
(* Python values that become a response body: a str holds bytes, a unicode *)
(* holds code points.                                                      *)
(***************************************************************************)
Str(kind, data) == [t |-> "str", kind |-> kind, data |-> data]
Unicode(kind, data) == [t |-> "unicode", kind |-> kind, data |-> data]

\* the code points outside ASCII
NonAscii == { "e-acute" }

\* bytes.decode('utf-8'): ok is FALSE for UnicodeDecodeError
RECURSIVE Utf8Decode(_)
Utf8Decode(bytes) ==
    IF bytes = <<>> THEN [ok |-> TRUE, data |-> <<>>]
    ELSE IF Head(bytes) = "0xC3"
    THEN IF Len(bytes) >= 2 /\ bytes[2] = "0xA9"
         THEN LET r == Utf8Decode(SubSeq(bytes, 3, Len(bytes)))
              IN  [ok |-> r.ok, data |-> <<"e-acute">> \o r.data]
         ELSE [ok |-> FALSE, data |-> <<>>]
    ELSE IF Head(bytes) = "0xA9" THEN [ok |-> FALSE, data |-> <<>>]
    ELSE LET r == Utf8Decode(Tail(bytes))
         IN  [ok |-> r.ok, data |-> <<Head(bytes)>> \o r.data]

\* what a child process may print on stdout/stderr
CmdOutputs == { <<"o", "k">>, <<"0xC3", "0xA9">>, <<"0xC3">> }

\* the exit statuses of a child process: success and failure
ExitStatuses == { 0, 1 }

(***************************************************************************)
(* str.format with keyword arguments on a template text, left to right    *)
(***************************************************************************)
FieldOf(unit) == IF unit = "{x}" THEN "x" ELSE "y"

RECURSIVE Format(_, _)
Format(text, kwargs) ==
    IF text = <<>> THEN [exc |-> "none", data |-> <<>>]
    ELSE LET u == Head(text)
             piece ==
                 IF u \in { "{x}", "{y}" }
                 THEN IF FieldOf(u) \in DOMAIN kwargs
                      THEN [exc |-> "none", data |-> <<kwargs[FieldOf(u)]>>]
                      ELSE [exc |-> "KeyError", data |-> <<>>]
                 ELSE IF u = "{0}" THEN [exc |-> "IndexError", data |-> <<>>]
                 ELSE IF u = "{" THEN [exc |-> "ValueError", data |-> <<>>]
                 ELSE IF u = "{{" THEN [exc |-> "none", data |-> <<"{">>]
                 ELSE IF u = "}}" THEN [exc |-> "none", data |-> <<"}">>]
                 ELSE [exc |-> "none", data |-> <<u>>]
         IN  IF piece.exc # "none" THEN piece
             ELSE LET r == Format(Tail(text), kwargs)
                  IN  IF r.exc # "none" THEN r
                      ELSE [exc |-> "none", data |-> piece.data \o r.data]

(***************************************************************************)
(* Sending.  A response records what reached the connection: the status    *)
(* line, the Content-type, Content-length and Set-Cookie headers, the body  *)
(* bytes, and whether headers and body were written in full.  The          *)
(* connection is                                                           *)
(* unbuffered, so what was written before an exception stays written.      *)
(***************************************************************************)
Sent(resps, exc) == [resps |-> resps, exc |-> exc]

NothingSent == Sent(<<>>, "none")

\* len(out)
PyLen(out) == Len(out.data)

\* the pairs of the Cookie header a request may carry
CookieHeader == <<"a=1", "b=2">>

send(cookie, ctype, out) ==
    LET head == [status |-> 200, ctype |-> ctype, hasClen |-> TRUE,
                 clen |-> PyLen(out), kind |-> out.kind, setcookie |-> <<>>]
    IN  IF cookie
        THEN \* line 769 names 'self', which is not defined in this scope
             Sent(<<head @@ [body |-> <<>>, complete |-> FALSE]>>, "NameError")
        ELSE IF out.t = "unicode" /\ \E i \in 1..Len(out.data) : out.data[i] \in NonAscii
        THEN \* wfile.write converts a unicode with the ascii codec
             Sent(<<head @@ [body |-> <<>>, complete |-> FALSE]>>, "UnicodeEncodeError")
        ELSE Sent(<<head @@ [body |-> out.data, complete |-> TRUE]>>, "none")

\* BaseHTTPRequestHandler.send_error of Python 2.7: no Content-length header
send_error(code) ==
    Sent(<<[status |-> code, ctype |-> "text/html", hasClen |-> FALSE, clen |-> 0,
            kind |-> "error", setcookie |-> <<>>, body |-> <<"Error response">>,
            complete |-> TRUE]>>,
         "none")

\* os.path.join(dir, name)
join(dir, name) ==
    IF EndsWith(dir, "/") THEN Append(dir, name) ELSE dir \o <<"/", name>>

\* the names of the file system in the order of sorted(...) without a key:
\* upper-case letters come before lower-case ones
SortedNamesBytes ==
    <<"README", "d", "d.tmpl", "index.html", "s.sh", "secret", "t.tmpl", "www">>

\* the names of the file system in the order of sorted(..., key=str.lower)
SortedNames ==
    <<"d", "d.tmpl", "index.html", "README", "s.sh", "secret", "t.tmpl", "www">>

\* the lines display_directory builds
listing(f, syspath, urlpath) ==
    LET node == Resolve(f, syspath).node
        names == SelectSeq(SortedNames, LAMBDA n : n \in listdir(f, node))
        parent == IF urlpath # <<"/">>
                  THEN <<[size |-> 0, ftype |-> "dir", href |-> dirname(urlpath),
                          name |-> ".."]>>
                  ELSE <<>>
        entry(n) == [size |-> getsize(f, Append(node, n)),
                     ftype |-> IF f[Append(node, n)].kind = "dir" THEN "dir" ELSE "file",
                     href |-> IF Last(urlpath) = "/" THEN Append(urlpath, n)
                              ELSE urlpath \o <<"/", n>>,
                     name |-> n]
    IN  parent \o [i \in 1..Len(names) |-> entry(names[i])]

display_directory(f, cookie, syspath, urlpath) ==
    send(cookie, "text/html", Str("listing", listing(f, syspath, urlpath)))

\* the file-system calls of display_directory
listing_touches(f, syspath) ==
    { Touch("list", f, syspath) }
    \cup { Touch("test", f, join(syspath, n)) :
             n \in listdir(f, Resolve(f, syspath).node) }

webserver_info(cookie) ==
    send(cookie, "text/html",
         Str("info", <<"Configuration Options", "Server Information">>))

\* runcmd: the text it returns for the bytes the child printed.  The
\* outputs of the model fit in one read of 32 bytes, so the whole output
\* is decoded at once.
runcmd(output) ==
    IF output = <<>> THEN [exc |-> "none", out |-> Str("bytes", <<>>)]
    ELSE IF ~Utf8Decode(output).ok
    THEN [exc |-> "UnicodeDecodeError", out |-> Str("bytes", <<>>)]
    ELSE [exc |-> "none", out |-> Unicode("bytes", Utf8Decode(output).data)]

\* SimpleHTTPRequestHandler.guess_type, by the extension of the last name
guess_type(syspath) ==
    IF Last(syspath) = "index.html" THEN "text/html"
    ELSE IF Last(syspath) = "s.sh" THEN "application/x-sh"
    ELSE "application/octet-stream"

\* str.endswith('.tmpl')
EndsWithTmpl(s) == Len(s) > 0 /\ Last(s) \in { "t.tmpl", "d.tmpl" }

(***************************************************************************)
(* special_case: the reserved URLs and the '@' and '!' suffixes.           *)
(* output is what a child process prints if one is run; readOK is whether  *)
(* an open() of the file succeeds.                                         *)
(***************************************************************************)
\* re.search(r'^/webserver/info/?$', urlpath)
IsInfoUrl(urlpath) ==
    urlpath \in { <<"/", "webserver", "/", "info">>,
                  <<"/", "webserver", "/", "info", "/">> }

\* re.search(r'^/system/name/?$', urlpath)
IsSystemNameUrl(urlpath) ==
    urlpath \in { <<"/", "system", "/", "name">>,
                  <<"/", "system", "/", "name", "/">> }

\* re.search(r'@$', urlpath)
IsAtUrl(urlpath) == EndsWith(urlpath, "@")

\* re.search(r'!$', urlpath)
IsBangUrl(urlpath) == EndsWith(urlpath, "!")

\* special_case without its 'return True': the caller always goes on
OutcomeNoReturn(ret, tests, rule, urlpath, syspath, sent, touches, run, failed) ==
    [ret |-> FALSE, tests |-> tests, matched |-> rule, urlpath |-> urlpath,
     syspath |-> syspath, sent |-> sent, touched |-> touches, cmds |-> run,
     ioerr |-> failed]

\* what special_case hands back to the handler
Outcome(ret, tests, rule, urlpath, syspath, sent, touches, run, failed) ==
    [ret |-> ret, tests |-> tests, matched |-> rule, urlpath |-> urlpath,
     syspath |-> syspath, sent |-> sent, touched |-> touches, cmds |-> run,
     ioerr |-> failed]

\* lines 910-931
at_case(f, cookie, urlpath, syspath, readOK) ==
    LET sp == ButLast(syspath)
        up == ButLast(urlpath)
        out(sent, touches, failed) ==
            Outcome(TRUE, <<1, 2, 3>>, 3, up, sp, sent, touches, <<>>, failed)
    IN  IF ~exists(f, sp)
        THEN out(send_error(404), { Touch("test", f, sp) }, FALSE)
        ELSE IF isdir(f, sp)
        THEN out(display_directory(f, cookie, sp, up),
                 { Touch("test", f, sp) } \cup listing_touches(f, sp), FALSE)
        ELSE IF isfile(f, sp)
        THEN IF readOK
             THEN out(send(cookie, "text/plain",
                           Str("bytes", f[Resolve(f, sp).node].content)),
                      { Touch("test", f, sp), Touch("read", f, sp) }, FALSE)
             ELSE out(send_error(404),
                      { Touch("test", f, sp), Touch("read", f, sp) }, TRUE)
        ELSE out(send_error(404), { Touch("test", f, sp) }, FALSE)

\* lines 939-945: the Content-type of the output of a '!' command
bang_ctype(params) ==
    IF "content-type" \in DOMAIN params
    THEN params["content-type"][1]
    ELSE "text/plain"

\* lines 932-951
bang_case(f, cookie, urlpath, syspath, params, output) ==
    LET ctype == bang_ctype(params)
        sp == ButLast(syspath)
        up == ButLast(urlpath)
        out(sent, touches, run) ==
            Outcome(TRUE, <<1, 2, 3, 4>>, 4, up, sp, sent, touches, run, FALSE)
    IN  IF isfile(f, sp)
        THEN out(IF runcmd(output).exc # "none"
                 THEN Sent(<<>>, runcmd(output).exc)
                 ELSE send(cookie, ctype, runcmd(output).out),
                 { Touch("test", f, sp), Touch("exec", f, sp) },
                 <<[cmd |-> sp, output |-> output]>>)
        ELSE out(send_error(404), { Touch("test", f, sp) }, <<>>)

special_case(f, cookie, urlpath, syspath, params, output, readOK) ==
    IF IsInfoUrl(urlpath)
    THEN Outcome(TRUE, <<1>>, 1, urlpath, syspath, webserver_info(cookie),
                 {}, <<>>, FALSE)
    ELSE IF IsSystemNameUrl(urlpath)
    THEN Outcome(TRUE, <<1, 2>>, 2, urlpath, syspath,
                 IF runcmd(output).exc # "none"
                 THEN Sent(<<>>, runcmd(output).exc)
                 ELSE send(cookie, "text/plain", runcmd(output).out),
                 {}, <<[cmd |-> <<"uname -a">>, output |-> output]>>, FALSE)
    ELSE IF IsAtUrl(urlpath)
    THEN at_case(f, cookie, urlpath, syspath, readOK)
    ELSE IF IsBangUrl(urlpath)
    THEN bang_case(f, cookie, urlpath, syspath, params, output)
    ELSE Outcome(FALSE, <<1, 2, 3, 4>>, 0, urlpath, syspath, NothingSent,
                 {}, <<>>, FALSE)

(***************************************************************************)
(* template: lines 954-1010                                                *)
(***************************************************************************)
\* kwargs[key] = req.m_params[key][0]
FirstValues(params) == [k \in DOMAIN params |-> params[k][1]]

template(f, cookie, urlpath, syspath, params, readOK) ==
    IF ~EndsWithTmpl(urlpath)
    THEN [ret |-> FALSE, sent |-> NothingSent, touched |-> {}, ioerr |-> FALSE]
    ELSE IF ~readOK \/ ~isfile(f, syspath)
    THEN \* except IOError: line 1003 names 'res', which is not defined
         [ret |-> TRUE, sent |-> Sent(<<>>, "NameError"),
          touched |-> { Touch("read", f, syspath) }, ioerr |-> TRUE]
    ELSE LET text == f[Resolve(f, syspath).node].content
             r == Format(text, FirstValues(params))
             sent == IF r.exc = "none"
                     THEN send(cookie, "text/html", Str("bytes", r.data))
                     ELSE IF r.exc = "KeyError"
                     THEN send(cookie, "text/plain",
                               Str("bytes", <<"<!-- ERROR: KeyError -->">> \o text))
                     ELSE Sent(<<>>, r.exc)
         IN  [ret |-> TRUE, sent |-> sent,
              touched |-> { Touch("read", f, syspath) }, ioerr |-> FALSE]

(***************************************************************************)
(* The command line                                                        *)
(***************************************************************************)
\* port_opt: the value of --port, or the argument error
port_opt(val) ==
    IF ~int(val).ok
    THEN [exc |-> "ArgumentTypeError", val |-> 0]         \* line 317
    ELSE IF 1 < int(val).n /\ int(val).n < 65535
    THEN [exc |-> "none", val |-> int(val).n]             \* line 314
    ELSE [exc |-> "ArgumentTypeError", val |-> 0]         \* line 315

\* the values given to --port
PortTexts == DOMAIN Decimal \cup { "abc", "1.5", "" }

\* a command line and the host at start-up: the text of --port, whether
\* --daemonize, --https and --cert are given, and whether the address can
\* be bound
Argvs == [port : PortTexts, daemonize : BOOLEAN, https : BOOLEAN, cert : BOOLEAN,
          bind : BOOLEAN]

\* the command line of the server that handles the requests
ServingArgv ==
    [port |-> "8080", daemonize |-> FALSE, https |-> FALSE, cert |-> FALSE,
     bind |-> TRUE]

(***************************************************************************)
(* The handler, step by step                                               *)
(***************************************************************************)
\* no request has arrived yet
InitRequests ==
    /\ fs \in FileSystems
    /\ pc = "idle"
    /\ req = NoRequest
    /\ m_urlpath = <<>>
    /\ m_syspath = <<>>
    /\ m_params = <<>>
    /\ responses = <<>>
    /\ raised = "none"
    /\ touched = {}
    /\ cmds = <<>>
    /\ ruleTests = <<>>
    /\ matched = 0
    /\ steps = <<>>
    /\ ioerr = FALSE
    /\ active = 0
    /\ child = "none"

\* the server has started with the default port, in the foreground, and is
\* in serve_forever
Init ==
    /\ InitRequests
    /\ mpc = "serving"
    /\ argv = ServingArgv
    /\ port = port_opt(ServingArgv.port).val
    /\ pidfile = "absent"
    /\ overwrote = FALSE
    /\ exitcode = -1

\* where the handler stands once sent has been written
After(sent) == IF sent.exc = "none" THEN "done" ELSE "raised"

\* a server that hands each connection to a thread of its own
\* (SocketServer.ThreadingTCPServer) accepts while a handler runs
CanAcceptThreading == TRUE

\* SocketServer.TCPServer runs the handler inside serve_forever: the next
\* connection is accepted when the handler has returned or raised
CanAccept == pc = "idle"

\* do_GET and do_POST call the handler, which runs init: lines 1013-1015,
\* 719-749
Receive ==
    /\ CanAccept
    /\ UNCHANGED mainvars
    /\ active' = active + 1
    /\ \E r \in Requests :
         /\ req' = r
         /\ \E i \in { init(r) } :
              /\ IF i.exc = "none"
                 THEN /\ m_urlpath' = i.urlpath
                      /\ m_params' = i.params
                      /\ m_syspath' = i.syspath
                 ELSE \* lines 744-747 are not reached: no attribute is set
                      UNCHANGED <<m_urlpath, m_params, m_syspath>>
              /\ raised' = i.exc
              /\ pc' = IF i.exc = "none" THEN "special" ELSE "raised"
    /\ UNCHANGED <<fs, responses, touched, cmds, ruleTests, matched, steps, ioerr,
                   child>>

\* lines 1016-1017
SpecialCase ==
    /\ pc = "special"
    /\ UNCHANGED mainvars
    /\ UNCHANGED active
    /\ \E output \in CmdOutputs, readOK \in BOOLEAN :
       \E o \in { special_case(fs, req.cookie, m_urlpath, m_syspath, m_params,
                                output, readOK) } :
       \E sts \in IF o.cmds # <<>> THEN ExitStatuses ELSE { 0 } :
           /\ ruleTests' = o.tests
           /\ matched' = o.matched
           /\ m_urlpath' = o.urlpath
           /\ m_syspath' = o.syspath
           /\ touched' = touched \cup o.touched
           /\ cmds' = cmds \o [i \in 1..Len(o.cmds) |-> o.cmds[i] @@ [sts |-> sts]]
           /\ ioerr' = o.ioerr
           /\ IF o.cmds # <<>>
              THEN \* line 876: Popen has started a child; the handler goes
                   \* on in runcmd
                   /\ child' = "running"
                   /\ pc' = "runcmd"
                   /\ UNCHANGED <<responses, raised>>
              ELSE /\ responses' = responses \o o.sent.resps
                   /\ raised' = o.sent.exc
                   /\ pc' = IF o.ret THEN After(o.sent) ELSE "exists"
                   /\ UNCHANGED child
    /\ UNCHANGED <<fs, req, m_params, steps>>

\* the child, or the last process that holds its output, closes the output
ChildCloses ==
    /\ child \in { "running", "zombie" }
    /\ UNCHANGED mainvars
    /\ child' = IF child = "running" THEN "closed" ELSE "exited"
    /\ UNCHANGED <<fs, pc, req, m_urlpath, m_syspath, m_params, responses, raised,
                   touched, cmds, ruleTests, matched, steps, ioerr, active>>

\* the child ends; a child left behind by an earlier request is forgotten
ChildEnds ==
    /\ child \in { "running", "closed", "orphan" }
    /\ UNCHANGED mainvars
    /\ child' = IF child = "running" THEN "zombie"
                ELSE IF child = "closed" THEN "exited"
                ELSE "none"
    /\ UNCHANGED <<fs, pc, req, m_urlpath, m_syspath, m_params, responses, raised,
                   touched, cmds, ruleTests, matched, steps, ioerr, active>>

\* line 885: proc.stdout.read(32) returns the output, which is shorter than
\* 32 bytes, when the output is closed
read_returns(c) == c \in { "closed", "exited" }

\* line 889: proc.wait() returns when the child has ended
wait_returns(c) == c = "exited"

\* lines 884-888: the loop of runcmd reads the output and decodes it
RuncmdRead ==
    /\ pc = "runcmd"
    /\ UNCHANGED mainvars
    /\ read_returns(child)
    /\ \E r \in { runcmd(cmds[Len(cmds)].output) } :
         /\ raised' = r.exc
         /\ pc' = IF r.exc = "none" THEN "wait" ELSE "raised"
    /\ UNCHANGED <<fs, req, m_urlpath, m_syspath, m_params, responses, touched,
                   cmds, ruleTests, matched, steps, ioerr, active, child>>

\* line 889 and lines 907, 947: runcmd waits for the child and returns, and
\* the output is sent
RuncmdWait ==
    /\ pc = "wait"
    /\ UNCHANGED mainvars
    /\ wait_returns(child)
    /\ \E sent \in { send(req.cookie,
                          IF matched = 2 THEN "text/plain" ELSE bang_ctype(m_params),
                          runcmd(cmds[Len(cmds)].output).out) } :
         /\ responses' = responses \o sent.resps
         /\ raised' = sent.exc
         /\ pc' = After(sent)
    /\ UNCHANGED <<fs, req, m_urlpath, m_syspath, m_params, touched, cmds,
                   ruleTests, matched, steps, ioerr, active, child>>

\* lines 1022-1024
ExistsCheck ==
    /\ pc = "exists"
    /\ UNCHANGED mainvars
    /\ UNCHANGED <<active, child>>
    /\ steps' = Append(steps, "exists")
    /\ touched' = touched \cup { Touch("test", fs, m_syspath) }
    /\ IF ~exists(fs, m_syspath)
       THEN /\ responses' = responses \o send_error(404).resps
            /\ pc' = "done"
       ELSE /\ responses' = responses
            /\ pc' = "dirindex"
    /\ UNCHANGED <<fs, req, m_urlpath, m_syspath, m_params, raised, cmds,
                   ruleTests, matched, ioerr>>

\* lines 1026-1042
DirIndex ==
    /\ pc = "dirindex"
    /\ UNCHANGED mainvars
    /\ UNCHANGED <<active, child>>
    /\ steps' = Append(steps, "dirindex")
    /\ IF isdir(fs, m_syspath)
       THEN LET path == join(m_syspath, "index.html")
            IN  IF exists(fs, path)
                THEN /\ m_syspath' = path
                     /\ touched' = touched \cup { Touch("test", fs, m_syspath),
                                                  Touch("test", fs, path) }
                     /\ pc' = "template"
                     /\ UNCHANGED <<responses, raised>>
                ELSE LET sent == display_directory(fs, req.cookie, m_syspath,
                                                   m_urlpath)
                     IN  /\ responses' = responses \o sent.resps
                         /\ raised' = sent.exc
                         /\ touched' = touched
                                \cup { Touch("test", fs, m_syspath),
                                       Touch("test", fs, path) }
                                \cup listing_touches(fs, m_syspath)
                         /\ pc' = After(sent)
                         /\ UNCHANGED m_syspath
       ELSE /\ touched' = touched \cup { Touch("test", fs, m_syspath) }
            /\ pc' = "template"
            /\ UNCHANGED <<m_syspath, responses, raised>>
    /\ UNCHANGED <<fs, req, m_urlpath, m_params, cmds, ruleTests, matched, ioerr>>

\* lines 1044-1046
Template ==
    /\ pc = "template"
    /\ UNCHANGED mainvars
    /\ UNCHANGED <<active, child>>
    /\ steps' = Append(steps, "template")
    /\ \E readOK \in BOOLEAN :
       \E t \in { template(fs, req.cookie, m_urlpath, m_syspath, m_params,
                            readOK) } :
           /\ responses' = responses \o t.sent.resps
           /\ raised' = t.sent.exc
           /\ touched' = touched \cup t.touched
           /\ ioerr' = t.ioerr
           /\ pc' = IF t.ret THEN After(t.sent) ELSE "static"
    /\ UNCHANGED <<fs, req, m_urlpath, m_syspath, m_params, cmds, ruleTests,
                   matched>>

\* lines 1048-1061
static(f, cookie, syspath, readOK) ==
    LET guessed == guess_type(syspath)
        ctype == IF guessed = "application/x-sh" THEN "text/plain" ELSE guessed
    IN  IF readOK /\ isfile(f, syspath)
        THEN [sent |-> send(cookie, ctype,
                            Str("bytes", f[Resolve(f, syspath).node].content)),
              ioerr |-> FALSE]
        ELSE [sent |-> send_error(404), ioerr |-> TRUE]

Static ==
    /\ pc = "static"
    /\ UNCHANGED mainvars
    /\ UNCHANGED <<active, child>>
    /\ steps' = Append(steps, "static")
    /\ \E readOK \in BOOLEAN :
       \E s \in { static(fs, req.cookie, m_syspath, readOK) } :
           /\ responses' = responses \o s.sent.resps
           /\ raised' = s.sent.exc
           /\ ioerr' = s.ioerr
           /\ pc' = After(s.sent)
    /\ touched' = touched \cup { Touch("read", fs, m_syspath) }
    /\ UNCHANGED <<fs, req, m_urlpath, m_syspath, m_params, cmds, ruleTests,
                   matched>>

\* a handler object that outlives its connection keeps its attributes
kept(attribute) == attribute

\* the server builds a RequestHandler object for each connection (line 1149
\* hands it the class): the attributes set at lines 744-747 go with the
\* object
discarded(attribute) == <<>>

\* the handler has returned or raised; the connection is closed and the
\* server accepts the next one
Finish ==
    /\ pc \in { "done", "raised" }
    /\ UNCHANGED mainvars
    /\ active' = active - 1
    /\ child' = IF child \in { "closed", "orphan" } THEN "orphan" ELSE "none"
    /\ pc' = "idle"
    /\ req' = NoRequest
    /\ m_urlpath' = discarded(m_urlpath)
    /\ m_syspath' = discarded(m_syspath)
    /\ m_params' = discarded(m_params)
    /\ responses' = <<>>
    /\ raised' = "none"
    /\ touched' = {}
    /\ cmds' = <<>>
    /\ ruleTests' = <<>>
    /\ matched' = 0
    /\ steps' = <<>>
    /\ ioerr' = FALSE
    /\ UNCHANGED fs

Next ==
    \/ Receive
    \/ SpecialCase
    \/ ExistsCheck
    \/ DirIndex
    \/ Template
    \/ Static
    \/ ChildCloses
    \/ ChildEnds
    \/ RuncmdRead
    \/ RuncmdWait
    \/ Finish

Spec == Init /\ [][Next]_vars

(***************************************************************************)
(* main: start-up and shutdown, lines 1208-1225                            *)
(***************************************************************************)
\* main has been called with some command line
InitMain ==
    /\ InitRequests
    /\ mpc = "getopts"
    /\ argv \in Argvs
    /\ port = 0
    /\ pidfile = "absent"
    /\ overwrote = FALSE
    /\ exitcode = -1

\* line 1212: getopts applies port_opt to the text of --port; argparse ends
\* the process with status 2 on an argument error
GetOpts ==
    /\ mpc = "getopts"
    /\ \E p \in { port_opt(argv.port) } :
         IF p.exc = "none"
         THEN port' = p.val /\ mpc' = "daemon_start" /\ UNCHANGED exitcode
         ELSE exitcode' = 2 /\ mpc' = "exited" /\ UNCHANGED port
    /\ UNCHANGED <<argv, pidfile, overwrote>>
    /\ UNCHANGED reqvars

\* another process creates a file at the path of the PID file while main
\* is on its way to writing it
OtherWritesPidFile ==
    /\ mpc \in { "daemon_start", "daemon_write" }
    /\ pidfile = "absent"
    /\ pidfile' = "other"
    /\ UNCHANGED <<mpc, argv, port, overwrote, exitcode>>
    /\ UNCHANGED reqvars

\* lines 138-151 (the log file and the PID file are named on the command
\* line)
DaemonStart ==
    /\ mpc = "daemon_start"
    /\ IF ~argv.daemonize
       THEN mpc' = "serve" /\ UNCHANGED exitcode
       ELSE IF pidfile # "absent"
       THEN exitcode' = 1 /\ mpc' = "exited"
       ELSE mpc' = "daemon_write" /\ UNCHANGED exitcode
    /\ UNCHANGED <<argv, port, pidfile, overwrote>>
    /\ UNCHANGED reqvars

\* lines 157-173: the process forks twice and the daemon writes its PID
DaemonWrite ==
    /\ mpc = "daemon_write"
    /\ pidfile' = "own"
    /\ overwrote' = (pidfile # "absent")
    /\ mpc' = "serve"
    /\ UNCHANGED <<argv, port, exitcode>>
    /\ UNCHANGED reqvars

\* serve, lines 1140-1164, up to serve_forever
ServeStart ==
    /\ mpc = "serve"
    /\ IF argv.https /\ ~argv.cert
       THEN exitcode' = 1 /\ mpc' = "exited"                \* line 1142
       ELSE IF ~argv.bind
       THEN exitcode' = 1 /\ mpc' = "exited"                \* line 1152
       ELSE mpc' = "serving" /\ UNCHANGED exitcode
    /\ UNCHANGED <<argv, port, pidfile, overwrote>>
    /\ UNCHANGED reqvars

\* serve, lines 1165-1172: a keyboard interrupt ends serve_forever and serve
\* returns
ServeReturns ==
    /\ mpc = "serving"
    /\ mpc' = "daemon_stop"
    /\ UNCHANGED <<argv, port, pidfile, overwrote, exitcode>>
    /\ UNCHANGED reqvars

\* daemon_stop, lines 176-185, and the end of main
DaemonStop ==
    /\ mpc = "daemon_stop"
    /\ pidfile' = IF argv.daemonize THEN "absent" ELSE pidfile
    /\ exitcode' = 0
    /\ mpc' = "exited"
    /\ UNCHANGED <<argv, port, overwrote>>
    /\ UNCHANGED reqvars

NextMain ==
    \/ GetOpts
    \/ OtherWritesPidFile
    \/ DaemonStart
    \/ DaemonWrite
    \/ ServeStart
    \/ ServeReturns
    \/ DaemonStop

SpecMain == InitMain /\ [][NextMain]_vars

(***************************************************************************)
(* Properties                                                              *)
(***************************************************************************)
\* the handler of the current request has returned or raised
Ended == pc \in { "done", "raised" }

\* init has set the URL path, the system path and the parameters of the
\* current request, so that the dispatcher runs for it
Resolved == m_syspath # <<>>

\* the dispatcher has run for the current request and has returned or raised
Handled == Ended /\ Resolved

\* the URL path of the request as received: the text before the first '?'
OrigUrl == Split(req.path, "?")[1]

\* the system path the URL path of the request maps to
OrigSysPath == translate_path(OrigUrl)

IsPrefix(p, q) == Len(p) <= Len(q) /\ SubSeq(q, 1, Len(p)) = p

\* the special-case rules as the specification words them
RuleHolds(k, u) ==
    IF k = 1 THEN u = <<"/", "webserver", "/", "info">>
                  \/ u = <<"/", "webserver", "/", "info", "/">>
    ELSE IF k = 2 THEN u = <<"/", "system", "/", "name">>
                       \/ u = <<"/", "system", "/", "name", "/">>
    ELSE IF k = 3 THEN u # <<>> /\ u[Len(u)] = "@"
    ELSE u # <<>> /\ u[Len(u)] = "!"

\* the first rule that holds of u, 0 when none does
FirstRule(u) ==
    IF \E k \in 1..4 : RuleHolds(k, u)
    THEN CHOOSE k \in 1..4 : RuleHolds(k, u) /\ \A j \in 1..(k - 1) : ~RuleHolds(j, u)
    ELSE 0

\* C1: the special-case rules are tested in the order 1, 2, 3, 4; the
\* response comes from the first rule that matches; once a rule has matched
\* no later rule is tested and no step of normal dispatch runs; normal
\* dispatch runs only when no rule matches.
C1_FirstMatchWins ==
    (pc \notin { "idle", "special" } /\ Resolved) =>
        LET k == FirstRule(OrigUrl)
        IN  /\ matched = k
            /\ ruleTests = [i \in 1..(IF k = 0 THEN 4 ELSE k) |-> i]
            /\ (k # 0 => steps = <<>> /\ (Handled \/ pc \in { "runcmd", "wait" }))
            /\ (steps # <<>> => k = 0)
            /\ (k = 1 => cmds = <<>> /\ touched = {}
                         /\ \A i \in 1..Len(responses) : responses[i].kind = "info")
            /\ (k = 2 => Len(cmds) = 1 /\ cmds[1].cmd = <<"uname -a">> /\ touched = {})
            /\ (k = 3 => cmds = <<>> /\ \A t \in touched : t.op # "exec")
            /\ (k = 4 => \A t \in touched : t.op \in { "test", "exec" })

\* a '@' request answered by rule 3
C1_Witness ==
    /\ pc = "done"
    /\ matched = 3
    /\ Len(responses) = 1
    /\ responses[1].status = 200

\* C2: every system path the dispatcher tests, lists, reads or executes lies
\* inside the web root, also after the trailing '@' or '!' has been stripped.
C2_InsideRoot ==
    \A t \in touched : t.ok => IsPrefix(RootNode, t.node)

\* C3: a GET that runs no host command ends without an exception and with
\* exactly one complete response, of status 200 or 404.
C3_OneCompleteResponse ==
    (Handled /\ cmds = <<>>) =>
        /\ raised = "none"
        /\ Len(responses) = 1
        /\ responses[1].complete
        /\ responses[1].status \in { 200, 404 }

\* C4: every response sent carries a Content-length header equal to the
\* number of body bytes written.
C4_ContentLength ==
    \A i \in 1..Len(responses) :
        responses[i].hasClen /\ responses[i].clen = Len(responses[i].body)

\* the file-system node a system path names, when it names one
NodeAt(syspath) == Resolve(fs, syspath).node

IsRegularFile(syspath) ==
    Resolve(fs, syspath).ok /\ fs[NodeAt(syspath)].kind = "file"

IsDirectory(syspath) ==
    Resolve(fs, syspath).ok /\ fs[NodeAt(syspath)].kind = "dir"

\* the URL carries the template suffix
HasTmplSuffix(u) == u # <<>> /\ u[Len(u)] \in { "t.tmpl", "d.tmpl" }

\* C5: a GET of a regular file under the web root, by a URL without a
\* special suffix, returns status 200, the bytes of the file and a
\* Content-length equal to their number.
C5_FileBytes ==
    ( /\ Handled
      /\ FirstRule(OrigUrl) = 0
      /\ ~HasTmplSuffix(OrigUrl)
      /\ IsRegularFile(OrigSysPath)
      /\ IsPrefix(RootNode, NodeAt(OrigSysPath))
      /\ ~ioerr )
    => /\ raised = "none"
       /\ Len(responses) = 1
       /\ responses[1].status = 200
       /\ responses[1].complete
       /\ responses[1].body = fs[NodeAt(OrigSysPath)].content
       /\ responses[1].hasClen
       /\ responses[1].clen = Len(fs[NodeAt(OrigSysPath)].content)

\* what a GET of the index.html of the requested directory, asked for by
\* its own URL with the same headers, is answered with
DirectIndex ==
    static(fs, req.cookie, join(OrigSysPath, "index.html"), TRUE).sent

\* C6: a GET of a directory that holds an index.html (with or without a
\* trailing slash, without '@') is answered as a GET of that index.html
\* itself is, whatever the name of the directory.
C6_IndexAsDirect ==
    ( /\ Handled
      /\ FirstRule(OrigUrl) = 0
      /\ IsDirectory(OrigSysPath)
      /\ IsPrefix(RootNode, NodeAt(OrigSysPath))
      /\ Append(NodeAt(OrigSysPath), "index.html") \in DOMAIN fs
      /\ ~ioerr )
    => /\ raised = DirectIndex.exc
       /\ Len(responses) = Len(DirectIndex.resps)
       /\ \A i \in 1..Len(responses) :
            /\ responses[i].status = DirectIndex.resps[i].status
            /\ responses[i].ctype = DirectIndex.resps[i].ctype
            /\ responses[i].body = DirectIndex.resps[i].body

\* C7: a GET of an existing directory with '@' appended returns a listing
\* (status 200, text/html) and the index lookup does not run.
C7_AtListsDirectory ==
    ( /\ Handled
      /\ FirstRule(OrigUrl) = 3
      /\ IsDirectory(ButLast(OrigSysPath)) )
    => /\ raised = "none"
       /\ Len(responses) = 1
       /\ responses[1].status = 200
       /\ responses[1].ctype = "text/html"
       /\ responses[1].kind = "listing"
       /\ responses[1].complete
       /\ steps = <<>>

\* C8: a GET of an existing regular file with '@' appended returns status
\* 200, text/plain and the raw bytes of the file; nothing is substituted
\* and nothing is executed.
C8_AtShowsFile ==
    ( /\ Handled
      /\ FirstRule(OrigUrl) = 3
      /\ IsRegularFile(ButLast(OrigSysPath))
      /\ ~ioerr )
    => /\ raised = "none"
       /\ Len(responses) = 1
       /\ responses[1].status = 200
       /\ responses[1].ctype = "text/plain"
       /\ responses[1].complete
       /\ responses[1].body = fs[NodeAt(ButLast(OrigSysPath))].content
       /\ cmds = <<>>

\* C9: for a URL ending with '!', the path with the '!' stripped is run as
\* a host command if and only if it is a regular file; otherwise the
\* response is 404 and no command is run.
C9_ExecIffRegularFile ==
    (Handled /\ FirstRule(OrigUrl) = 4) =>
        LET sp == ButLast(OrigSysPath)
        IN  /\ IsRegularFile(sp) =>
                /\ Len(cmds) = 1
                /\ cmds[1].cmd = sp
                /\ [op |-> "exec", path |-> sp, ok |-> TRUE, node |-> NodeAt(sp)]
                     \in touched
            /\ ~IsRegularFile(sp) =>
                /\ cmds = <<>>
                /\ \A t \in touched : t.op # "exec"
                /\ raised = "none"
                /\ Len(responses) = 1
                /\ responses[1].status = 404

\* a '!' request on a regular file, which was run
C9_Witness ==
    /\ Handled
    /\ FirstRule(OrigUrl) = 4
    /\ IsRegularFile(ButLast(OrigSysPath))
    /\ Len(cmds) = 1

\* C10: a '!' request that runs a file is answered with status 200, the
\* output of the command as body, and the first value of the parameter
\* 'content-type' as Content-type, text/plain when there is none.
C10_ExecResponse ==
    (Handled /\ FirstRule(OrigUrl) = 4 /\ cmds # <<>>) =>
        /\ raised = "none"
        /\ Len(responses) = 1
        /\ responses[1].status = 200
        /\ responses[1].complete
        /\ responses[1].body = cmds[1].output
        /\ responses[1].ctype = IF "content-type" \in DOMAIN m_params
                                THEN m_params["content-type"][1]
                                ELSE "text/plain"

\* a unit of a template text that names a parameter
IsPlaceholder(u) == u \in { "{x}", "{y}" }

\* the parameter a placeholder names
PlaceholderName(u) == IF u = "{x}" THEN "x" ELSE "y"

\* a unit of a template text without any brace
IsPlainText(u) == u \notin { "{x}", "{y}", "{0}", "{", "{{", "}}" }

\* the request asks for an existing template file by its own URL, the file
\* is read, and its text holds plain text and named placeholders only
TemplateRequested ==
    /\ Handled
    /\ FirstRule(OrigUrl) = 0
    /\ HasTmplSuffix(OrigUrl)
    /\ IsRegularFile(OrigSysPath)
    /\ ~ioerr
    /\ \A i \in 1..Len(fs[NodeAt(OrigSysPath)].content) :
         \/ IsPlaceholder(fs[NodeAt(OrigSysPath)].content[i])
         \/ IsPlainText(fs[NodeAt(OrigSysPath)].content[i])

TemplateText == fs[NodeAt(OrigSysPath)].content

\* every placeholder of the requested template has a parameter
AllPlaceholdersGiven ==
    \A i \in 1..Len(TemplateText) :
        IsPlaceholder(TemplateText[i]) =>
            PlaceholderName(TemplateText[i]) \in DOMAIN m_params

\* C11: an existing template whose placeholders all have a parameter is
\* answered with status 200, text/html and the text with every placeholder
\* replaced by the first value of its parameter.
C11_TemplateRendered ==
    (TemplateRequested /\ AllPlaceholdersGiven) =>
        /\ raised = "none"
        /\ Len(responses) = 1
        /\ responses[1].status = 200
        /\ responses[1].ctype = "text/html"
        /\ responses[1].complete
        /\ responses[1].body =
             [i \in 1..Len(TemplateText) |->
                 IF IsPlaceholder(TemplateText[i])
                 THEN m_params[PlaceholderName(TemplateText[i])][1]
                 ELSE TemplateText[i]]

\* C12: an existing template that names a placeholder without a parameter
\* is answered with status 200, text/plain and an HTML comment about the
\* missing key followed by the whole unsubstituted text.
C12_MissingKeyEcho ==
    (TemplateRequested /\ ~AllPlaceholdersGiven) =>
        /\ raised = "none"
        /\ Len(responses) = 1
        /\ responses[1].status = 200
        /\ responses[1].ctype = "text/plain"
        /\ responses[1].complete
        /\ responses[1].body = <<"<!-- ERROR: KeyError -->">> \o TemplateText

\* C13: the template renderer applies exactly when the resolved system
\* path ends with '.tmpl'; otherwise it declines and the static responder
\* serves the file as it is.
C13_TemplateIffTmplPath ==
    (Handled /\ ~ioerr /\ \E i \in 1..Len(steps) : steps[i] = "template") =>
        /\ HasTmplSuffix(m_syspath) <=> (\A i \in 1..Len(steps) : steps[i] # "static")
        /\ ~HasTmplSuffix(m_syspath) =>
             \A i \in 1..Len(responses) :
                 responses[i].complete =>
                     responses[i].body = fs[NodeAt(m_syspath)].content

\* the request names, by its own URL, a directory that holds no index file
DirectoryWithoutIndex ==
    /\ Handled
    /\ FirstRule(OrigUrl) = 0
    /\ IsDirectory(OrigSysPath)
    /\ "index.html" \notin listdir(fs, NodeAt(OrigSysPath))

\* str.lower of a file name
Lower(n) == IF n = "README" THEN "readme" ELSE n

\* the lower-case names in alphabetical order
Alphabetical ==
    <<"d", "d.tmpl", "index.html", "readme", "s.sh", "secret", "t.tmpl", "www">>

\* the place of a name in the case-insensitive order
LowerRank(n) == CHOOSE i \in 1..Len(Alphabetical) : Alphabetical[i] = Lower(n)

\* C14: the listing of a directory without an index file has exactly one
\* line per entry of the directory, in case-insensitive order of the names,
\* and besides exactly one '..' line (size 0, tag dir) when the URL path is
\* not '/', and none when it is '/'.
C14_ListingLines ==
    DirectoryWithoutIndex =>
        LET L == listing(fs, m_syspath, m_urlpath)
            entries == listdir(fs, NodeAt(OrigSysPath))
        IN  /\ Len(responses) = 1
            /\ responses[1].kind = "listing"
            /\ responses[1].clen = Len(L)
            /\ responses[1].complete => responses[1].body = L
            /\ \A n \in entries :
                 Cardinality({ i \in 1..Len(L) : L[i].name = n }) = 1
            /\ \A i \in 1..Len(L) : L[i].name \in entries \cup { ".." }
            /\ \A i, j \in 1..Len(L) :
                 (i < j /\ L[i].name # ".." /\ L[j].name # "..") =>
                     LowerRank(L[i].name) < LowerRank(L[j].name)
            /\ Cardinality({ i \in 1..Len(L) : L[i].name = ".." }) =
                 (IF m_urlpath = <<"/">> THEN 0 ELSE 1)
            /\ \A i \in 1..Len(L) :
                 L[i].name = ".." => (L[i].size = 0 /\ L[i].ftype = "dir")

\* a listing of the web root, which holds an upper-case name, was sent in
\* full for a URL path other than '/'
C14_Witness ==
    /\ DirectoryWithoutIndex
    /\ m_urlpath # <<"/">>
    /\ responses[1].complete
    /\ \E i \in 1..Len(responses[1].body) : responses[1].body[i].name = "README"
    /\ \E i \in 1..Len(responses[1].body) : responses[1].body[i].name = ".."
    /\ Len(responses[1].body) > 3

\* a listing for the URL path '/' was sent in full
C14_WitnessRoot ==
    /\ DirectoryWithoutIndex
    /\ m_urlpath = <<"/">>
    /\ responses[1].complete

\* the system path the dispatcher looks up: the translated URL path, without
\* its last character for a '@' or '!' request
LookedUpPath ==
    IF FirstRule(OrigUrl) \in { 3, 4 } THEN ButLast(OrigSysPath) ELSE OrigSysPath

\* C15: a request whose path (after a trailing '@' or '!' is stripped) does
\* not exist is answered with 404, and nothing is read, listed or executed
\* for it.
C15_MissingIs404 ==
    (Handled /\ FirstRule(OrigUrl) \in { 0, 3, 4 } /\ ~Resolve(fs, LookedUpPath).ok) =>
        /\ raised = "none"
        /\ Len(responses) = 1
        /\ responses[1].status = 404
        /\ responses[1].complete
        /\ cmds = <<>>
        /\ \A t \in touched : t.op = "test"

\* a missing path below an existing directory was asked for, by a plain
\* URL, and answered
C15_Witness ==
    /\ Handled
    /\ FirstRule(OrigUrl) = 0
    /\ ~Resolve(fs, OrigSysPath).ok
    /\ Resolve(fs, dirname(OrigSysPath)).ok
    /\ Len(responses) = 1
    /\ responses[1].status = 404

\* C16: a request with a Cookie header that is answered with status 200
\* gets one Set-Cookie header for each pair of its Cookie header, with the
\* same name and value, and the whole body.
C16_CookiesEchoed ==
    (Handled /\ req.cookie) =>
        \A i \in 1..Len(responses) :
            responses[i].status = 200 =>
                /\ responses[i].setcookie = CookieHeader
                /\ responses[i].complete
                /\ Len(responses[i].body) = responses[i].clen
                /\ raised = "none"

\* the raw path of the request holds no '?'
NoQuery == \A i \in 1..Len(req.path) : req.path[i] # "?"

\* a POST with a urlencoded body
UrlencodedPost == req.command = "POST" /\ req.ctype = Urlencoded

\* C17: a POST without a query string, with a urlencoded body and a
\* Content-length that is the length of the body, gets as parameters
\* exactly the fields of the body, blank values included, and is dispatched
\* and answered.
C17_PostParameters ==
    (Ended /\ UrlencodedPost /\ NoQuery
        /\ int(req.clen).ok /\ int(req.clen).n = Len(req.body)) =>
        /\ raised = "none"
        /\ Resolved
        /\ m_params = parse_qs_keep(rfile_read(req.body, int(req.clen).n))
        /\ Len(responses) = 1

\* C18: a POST with a urlencoded body whose Content-length header is
\* missing or not an integer fails in init: the exception (KeyError for a
\* missing header, ValueError for a malformed one, when the request has no
\* query string) leaves the dispatcher, no response byte is written, and no
\* file is read, listed or executed.
C18_BadLengthPropagates ==
    (Ended /\ UrlencodedPost /\ ~int(req.clen).ok) =>
        /\ raised # "none"
        /\ NoQuery => raised = (IF req.clen = "missing" THEN "KeyError"
                                ELSE "ValueError")
        /\ ~Resolved
        /\ responses = <<>>
        /\ touched = {}
        /\ cmds = <<>>

\* a POST whose Content-length is not a number has ended in ValueError
C18_Witness ==
    /\ pc = "raised"
    /\ UrlencodedPost
    /\ NoQuery
    /\ req.clen = "abc"
    /\ raised = "ValueError"

\* the text a?b read as one query field, '?' being an ordinary character
Glued(a, b) == IF a = "x=5" /\ b = "x=6" THEN "x=5?x=6" ELSE a

\* the fields of a query text in which '?' does not separate anything
RECURSIVE WholeFields(_)
WholeFields(text) ==
    IF text = <<>> THEN <<>>
    ELSE IF Len(text) >= 3 /\ text[2] = "?"
    THEN WholeFields(<<Glued(text[1], text[3])>> \o SubSeq(text, 4, Len(text)))
    ELSE <<Head(text)>> \o WholeFields(Tail(text))

\* the place of the first '?' of the raw path
FirstMark == CHOOSE i \in 1..Len(req.path) :
                 req.path[i] = "?" /\ \A j \in 1..(i - 1) : req.path[j] # "?"

\* C19: when the raw path holds a '?', the URL path is the text before the
\* first '?' and the parameters are parsed from all of the text after it,
\* further '?' characters included; without a '?' the URL path is the whole
\* path and there are no parameters.
C19_SplitAtFirstMark ==
    (pc = "special" /\ req.command = "GET") =>
        IF NoQuery
        THEN m_urlpath = req.path /\ m_params = <<>>
        ELSE /\ m_urlpath = SubSeq(req.path, 1, FirstMark - 1)
             /\ m_params =
                  parse_qs(WholeFields(SubSeq(req.path, FirstMark + 1, Len(req.path))))

\* C20: at every moment at most one request is being handled, and a
\* request is taken up only when the handling of the one before it,
\* response included, has ended.
C20_OneAtATime ==
    /\ active \in { 0, 1 }
    /\ active = 1 <=> pc # "idle"
    /\ active = 0 => (req = NoRequest /\ responses = <<>>)

\* the handler of a request has sent its response and has not yet returned
\* to the server loop
C20_Witness ==
    /\ active = 1
    /\ pc = "done"
    /\ Len(responses) = 1
    /\ responses[1].complete

\* a child process started by runcmd is alive
ChildAlive == child \in { "running", "closed", "orphan" }

\* C21: a request that runs a host command is answered only when the child
\* has closed its output and has ended; while the child is alive the
\* request that started it stays unanswered in runcmd and no other request
\* is handled, so that a child that never ends keeps this request and every
\* later one unanswered.
C21_BlocksUntilChildEnds ==
    /\ (cmds # <<>> /\ responses # <<>>) => child = "exited"
    /\ ChildAlive => responses = <<>>
    /\ child = "orphan" => pc = "idle"

\* C22: nothing of a request is left for the next: whatever was handled
\* before, the handler of a request starts with the URL path, the system
\* path and the parameters that init derives from this request alone, with
\* nothing written, tested, run or matched; every later step reads only
\* this state, the request and the file system.
C22_NoStateAcrossRequests ==
    [][(pc = "idle" /\ pc' # "idle") =>
          /\ raised' = init(req').exc
          /\ m_urlpath' = init(req').urlpath
          /\ m_syspath' = init(req').syspath
          /\ m_params' = init(req').params
          /\ responses' = <<>>
          /\ touched' = {}
          /\ cmds' = <<>>
          /\ ruleTests' = <<>>
          /\ matched' = 0
          /\ steps' = <<>>
          /\ ioerr' = FALSE]_vars

\* a request has been answered while a child process that an earlier
\* request left behind is still alive: it is not the first request
C22_Witness ==
    /\ child = "orphan"
    /\ pc = "done"
    /\ Len(responses) = 1
    /\ responses[1].complete

\* the bytes are ASCII characters, as the output of uname is
IsAscii(bytes) == \A i \in 1..Len(bytes) : bytes[i] \notin { "0xC3", "0xA9" }

\* C23: a request for /system/name (with or without a trailing slash) is
\* answered with status 200, text/plain and the output of the command as
\* body, whether the command ends with status zero or not.
C23_SystemName ==
    (Handled /\ FirstRule(OrigUrl) = 2 /\ \A i \in 1..Len(cmds) : IsAscii(cmds[i].output)) =>
        /\ raised = "none"
        /\ Len(cmds) = 1
        /\ Len(responses) = 1
        /\ responses[1].status = 200
        /\ responses[1].ctype = "text/plain"
        /\ responses[1].complete
        /\ responses[1].body = cmds[1].output

\* C24: when a file that passed the existence check cannot be opened for
\* reading, the request is answered with 404, in the static responder, in
\* the template renderer and in the '@' display alike.
C24_ReadFailureIs404 ==
    (Handled /\ ioerr) =>
        /\ raised = "none"
        /\ Len(responses) = 1
        /\ responses[1].status = 404
        /\ responses[1].complete

\* the text is the decimal form of an integer from 1 to 65535
InPortRange(text) ==
    text \in { "1", "2", "8080", "65534", "65535" }

\* C25: --port takes exactly the integers from 1 to 65535: each of them is
\* accepted and becomes opts.port, and every other value is refused with an
\* argument error.
C25_PortRange ==
    mpc # "getopts" =>
        IF InPortRange(argv.port)
        THEN port = Decimal[argv.port] /\ ~(mpc = "exited" /\ exitcode = 2)
        ELSE mpc = "exited" /\ exitcode = 2

\* C28: in daemon mode, a PID file that daemon_start has written is gone
\* when main has finished, whether serve returned or ended the process on
\* a start-up error; and daemon_start never writes over a PID file that is
\* already there.
C28_PidFileCleanup ==
    /\ (mpc = "exited" /\ argv.daemonize) => pidfile # "own"
    /\ ~overwrote

\* the steps of normal dispatch in the order of the handler
DispatchSteps == <<"exists", "dirindex", "template", "static">>

\* C26: for a request that no special case matches, the dispatcher runs
\* the existence check, the directory and index resolution, the template
\* renderer and the static responder in this order and stops at the first
\* that responds: a missing path is answered 404 by the existence check,
\* also when it ends with '.tmpl'; a directory without index.html is
\* answered by the listing, also when its URL ends with '.tmpl'; anything
\* else goes on to the template renderer, and to the static responder when
\* the renderer declines.
C26_DispatchOrder ==
    (Resolved /\ pc \notin { "idle", "special" } /\ FirstRule(OrigUrl) = 0) =>
        /\ IsPrefix(steps, DispatchSteps)
        /\ (responses # <<>> \/ raised # "none") => Ended
        /\ Ended => steps # <<>>
        /\ Ended =>
             IF ~Resolve(fs, OrigSysPath).ok
             THEN /\ steps = <<"exists">>
                  /\ Len(responses) = 1
                  /\ responses[1].status = 404
             ELSE IF IsDirectory(OrigSysPath)
                     /\ "index.html" \notin listdir(fs, NodeAt(OrigSysPath))
             THEN /\ steps = <<"exists", "dirindex">>
                  /\ Len(responses) = 1
                  /\ responses[1].kind = "listing"
             ELSE /\ Len(steps) >= 3
                  /\ Len(steps) = 4 =>
                       (Len(responses) = 1 /\ responses[1].kind # "listing")

\* a directory without index.html whose URL ends with '.tmpl' has been
\* answered with its listing
C26_Witness ==
    /\ Handled
    /\ FirstRule(OrigUrl) = 0
    /\ HasTmplSuffix(OrigUrl)
    /\ IsDirectory(OrigSysPath)
    /\ steps = <<"exists", "dirindex">>
    /\ Len(responses) = 1
    /\ responses[1].kind = "listing"
    /\ responses[1].complete

\* the URL of the parent directory of the directory that the URL path u
\* names, u being written with or without a trailing slash
ParentUrl(u) == dirname(RStripSlash(u))

\* C29: in a listing for a URL path other than '/', the '..' line links to
\* the parent directory of the listed directory, whether the URL path ends
\* with a slash or not.
C29_ParentLink ==
    (Handled /\ Len(responses) = 1 /\ responses[1].kind = "listing"
        /\ responses[1].complete /\ m_urlpath # <<"/">>) =>
        \A i \in 1..Len(responses[1].body) :
            responses[1].body[i].name = ".." =>
                responses[1].body[i].href = ParentUrl(m_urlpath)

(***************************************************************************)
(* The plugin www/plugins/default.py: the text of default_request_handler  *)
(* under the name request_handler, in a module of its own.  A global name  *)
(* of a function is looked up in the module that defines the function, so  *)
(* the same text may resolve its names differently in the two modules.     *)
(***************************************************************************)

\* the names bound at the top level of webserver.py and of default.py
WebserverGlobals ==
    { "print_function", "sys", "argparse", "cgi", "Cookie", "imp", "logging",
      "mimetypes", "re", "os", "socket", "SocketServer", "ssl", "subprocess" }

PluginGlobals == { "cgi", "mimetypes", "os", "re", "subprocess" }

\* the global names that a line evaluates, in the order of evaluation
CookieLine == <<"Cookie", "self">>

SelectLine == <<"select", "self">>

\* the lookup of global names with every name found
lookup_found(globals, names) == "none"

\* the lookup of global names in order: the first one that is not bound
\* raises NameError
lookup(globals, names) ==
    IF \E i \in 1..Len(names) : names[i] \notin globals
    THEN "NameError" ELSE "none"

\* send of the plugin (default.py lines 111-127)
plugin_send(cookie, ctype, out) ==
    LET found == lookup(PluginGlobals, CookieLine) = "none"
        head == [status |-> 200, ctype |-> ctype, hasClen |-> TRUE,
                 clen |-> PyLen(out), kind |-> out.kind,
                 setcookie |-> IF cookie /\ found THEN CookieHeader ELSE <<>>]
    IN  IF cookie /\ ~found
        THEN Sent(<<head @@ [body |-> <<>>, complete |-> FALSE]>>, "NameError")
        ELSE IF out.t = "unicode" /\ \E i \in 1..Len(out.data) : out.data[i] \in NonAscii
        THEN Sent(<<head @@ [body |-> <<>>, complete |-> FALSE]>>, "UnicodeEncodeError")
        ELSE Sent(<<head @@ [body |-> out.data, complete |-> TRUE]>>, "none")

\* init of the plugin (default.py lines 61-101)
plugin_init(r) ==
    LET parts == Split(r.path, "?")
        got(params) == [exc |-> "none", urlpath |-> parts[1],
                        syspath |-> translate_path(parts[1]), params |-> params]
        fail(exc) == [exc |-> exc, urlpath |-> <<>>, syspath |-> <<>>,
                      params |-> <<>>]
        query == IF Len(parts) > 1 THEN parse_qs(parts[2]) ELSE <<>>
    IN  IF r.command # "POST" THEN got(query)
        ELSE IF DOMAIN query # {}
        THEN fail("AssertionError")                       \* line 82
        ELSE IF r.ctype = "missing"
        THEN fail("TypeError")                            \* line 83
        ELSE IF r.ctype = Urlencoded /\ content_length(r.clen).exc # "none"
        THEN fail(content_length(r.clen).exc)             \* line 87
        ELSE IF lookup(PluginGlobals, SelectLine) # "none"
        THEN fail("NameError")                            \* line 92
        ELSE IF r.ctype = Urlencoded
        THEN got(parse_qs_keep(rfile_read(r.body, content_length(r.clen).n)))
        ELSE got(<<>>)

\* the values that the handler passes to send
SendTypes == { "text/html", "text/plain", "application/octet-stream" }

SendOuts ==
    { Str("file", <<"o", "k">>), Unicode("cmd", <<"o", "k">>),
      Unicode("cmd", <<"e-acute">>), Str("listing", <<>>) }

\* C27: the request handler of the plugin and the built-in handler have the
\* same outcome: for the request being handled, init gives the same
\* attributes or raises the same exception, and send gives the same status,
\* headers and body or stops at the same place with the same exception,
\* for every content and for the responses that were sent.
C27_Interchangeable ==
    pc # "idle" =>
        /\ plugin_init(req) = init(req)
        /\ \A ctype \in SendTypes : \A out \in SendOuts :
               plugin_send(req.cookie, ctype, out) = send(req.cookie, ctype, out)
        /\ \A i \in 1..Len(responses) :
               (responses[i].kind # "error" /\ responses[i].complete) =>
                   LET out == Str(responses[i].kind, responses[i].body)
                       sent == Sent(<<responses[i]>>, "none")
                   IN  /\ send(req.cookie, responses[i].ctype, out) = sent
                       /\ plugin_send(req.cookie, responses[i].ctype, out) = sent

\* a request with a Cookie header has been answered by send, which stopped
\* at the Set-Cookie lines
C27_Witness ==
    /\ pc = "raised"
    /\ req.cookie
    /\ raised = "NameError"
    /\ Len(responses) = 1
    /\ responses[1].status = 200
    /\ ~responses[1].complete
    /\ lookup(WebserverGlobals, CookieLine) = "NameError"
    /\ lookup(PluginGlobals, CookieLine) = "NameError"

====
